---- MODULE Spec2Model ----
(***************************************************************************)
(* A model of the game engine of tetris.py (class Piece, class Tetris).    *)
(*                                                                         *)
(* The board is a sequence of ROWS rows of COLS cells; Python's 0-based    *)
(* board[y][x] is board[y + 1][x + 1] here.  A cell holds None or the      *)
(* colour the source writes into it.  A piece is a record kind/rot/x/y     *)
(* with the 0-based rotation index of the source.                          *)
(*                                                                         *)
(* Each handler of the source is an operator from a game record to a game  *)
(* record (the handlers call each other: soft_drop -> move -> lock ->      *)
(* clear_lines / persist_game), and each action of the specification       *)
(* applies one whole handler.  The random draw of new_piece is an input of *)
(* the handler (nk).  Drawing (canvas) is left out: it reads the state and *)
(* writes none of it.                                                      *)
(***************************************************************************)
EXTENDS Integers, Sequences, FiniteSets, TLC

(***************************************************************************)
(* Bounds of the model.  The source plays on a 10 x 20 board with 7 kinds; *)
(* the model checks the same code on a smaller board, with the kinds drawn *)
(* from the first NumKinds of KindOrder, with at most MaxLocks locks       *)
(* between two resets (after the last of them only the restart key is      *)
(* served), and with the drop keys served while the score is below         *)
(* MaxScore.  The board has SmallRows rows, but for the one play of        *)
(* SpecTall, which needs a stack of 2 * PlanPairs rows under four free     *)
(* rows.                                                                   *)
(***************************************************************************)
COLS == 7
SmallRows == 4
PlanPairs == 5
NumKinds == 2
MaxLocks == 4
MaxScore == 2
ShortLocks == 2
MaxLevel == 13
LateLocks == 1
MaxAbove == 3

TallRows == 2 * PlanPairs + 4
TallLocks == 3 * PlanPairs + 2

\* ROWS of the source (tetris.py:149): the number of rows of the board.  It
\* is fixed when a behaviour starts, SmallRows or TallRows, and never changes.
VARIABLE ROWS

\* Program constants (tetris.py:152-154, Piece.__init__).
START_DELAY == 500
LEVEL_STEP == 40
LINES_PER_LEVEL == 10
MIN_DELAY == 80
SPAWN_X == 3
SPAWN_Y == 0

None == "None"

SHAPES ==
  [ I |-> << << <<0,1>>, <<1,1>>, <<2,1>>, <<3,1>> >>,
             << <<2,0>>, <<2,1>>, <<2,2>>, <<2,3>> >> >>,
    J |-> << << <<0,0>>, <<0,1>>, <<1,1>>, <<2,1>> >>,
             << <<1,0>>, <<2,0>>, <<1,1>>, <<1,2>> >>,
             << <<0,1>>, <<1,1>>, <<2,1>>, <<2,2>> >>,
             << <<1,0>>, <<1,1>>, <<0,2>>, <<1,2>> >> >>,
    L |-> << << <<2,0>>, <<0,1>>, <<1,1>>, <<2,1>> >>,
             << <<1,0>>, <<1,1>>, <<1,2>>, <<2,2>> >>,
             << <<0,1>>, <<1,1>>, <<2,1>>, <<0,2>> >>,
             << <<0,0>>, <<1,0>>, <<1,1>>, <<1,2>> >> >>,
    O |-> << << <<1,0>>, <<2,0>>, <<1,1>>, <<2,1>> >> >>,
    S |-> << << <<1,0>>, <<2,0>>, <<0,1>>, <<1,1>> >>,
             << <<1,0>>, <<1,1>>, <<2,1>>, <<2,2>> >> >>,
    T |-> << << <<1,0>>, <<0,1>>, <<1,1>>, <<2,1>> >>,
             << <<1,0>>, <<1,1>>, <<2,1>>, <<1,2>> >>,
             << <<0,1>>, <<1,1>>, <<2,1>>, <<1,2>> >>,
             << <<1,0>>, <<0,1>>, <<1,1>>, <<1,2>> >> >>,
    Z |-> << << <<0,0>>, <<1,0>>, <<1,1>>, <<2,1>> >>,
             << <<2,0>>, <<1,1>>, <<2,1>>, <<1,2>> >> >> ]

COLORS ==
  [ I |-> "#53d1f5", J |-> "#5a79ff", L |-> "#ff9f40", O |-> "#ffd93b",
    S |-> "#7dd36a", T |-> "#ba6bff", Z |-> "#ff6b6b", G |-> "#445" ]

\* The order in which the kinds enter the bounded draw of new_piece.
KindOrder == << "I", "O", "T", "L", "J", "S", "Z" >>

Kinds == { KindOrder[i] : i \in 1..NumKinds }

AllKinds == { KindOrder[i] : i \in 1..Len(KindOrder) }

\* The player names login_flow can return.
Names == { "ann" }

(***************************************************************************)
(* class Piece                                                             *)
(***************************************************************************)
Piece(kind) == [kind |-> kind, rot |-> 0, x |-> SPAWN_X, y |-> SPAWN_Y]

blocks(p) == SHAPES[p.kind][p.rot + 1]

rotated(p) == [p EXCEPT !.rot = (p.rot + 1) % Len(SHAPES[p.kind])]

moved(p, dx, dy) == [p EXCEPT !.x = p.x + dx, !.y = p.y + dy]

\* The absolute cells <<x, y>> of a piece, in the order of its blocks.
cells(p) == [i \in 1..4 |-> << p.x + blocks(p)[i][1], p.y + blocks(p)[i][2] >>]

(***************************************************************************)
(* The board                                                               *)
(***************************************************************************)
EmptyRow == [c \in 1..COLS |-> None]

EmptyBoard == [r \in 1..ROWS |-> EmptyRow]

\* Python's truth value of board[y][x].
Occupied(b, x, y) == b[y + 1][x + 1] # None

\* valid with the rows above the board passable: only the columns and the
\* bottom bound a block, and only rows >= 0 are looked up.
valid_rows_above_passable(b, p) ==
  \A i \in 1..4 :
    LET x == cells(p)[i][1]
        y == cells(p)[i][2]
    IN  /\ ~(x < 0 \/ x >= COLS \/ y >= ROWS)
        /\ y >= 0 => ~Occupied(b, x, y)

\* Tetris.valid
valid(b, p) ==
  \A i \in 1..4 :
    LET x == cells(p)[i][1]
        y == cells(p)[i][2]
    IN  /\ ~(x < 0 \/ x >= COLS \/ y < 0 \/ y >= ROWS)
        /\ ~Occupied(b, x, y)

(***************************************************************************)
(* class Tetris: the game record                                           *)
(*   board, cur, next, score, lines, level, delay, paused, game_over,      *)
(*   player_name: the fields of the object;                                *)
(*   emitted: the records handed to Game.objects.insert by the command     *)
(*   being executed (name, score, lines, level; id and played_at are the   *)
(*   store's row number and the clock).                                    *)
(***************************************************************************)

\* Tetris.persist_game
persist_game(g) ==
  IF g.player_name = None
  THEN g
  ELSE [g EXCEPT !.emitted =
          Append(@, [name |-> g.player_name, score |-> g.score,
                     lines |-> g.lines, level |-> g.level])]

\* full = [i for i in range(ROWS) if all(board[i][c] for c in range(COLS))]
\* (0-based row indices, ascending)
RECURSIVE FullFrom(_, _)
FullFrom(b, i) ==
  IF i >= ROWS THEN << >>
  ELSE IF \A c \in 0..(COLS - 1) : Occupied(b, c, i)
       THEN << i >> \o FullFrom(b, i + 1)
       ELSE FullFrom(b, i + 1)

full_rows(b) == FullFrom(b, 0)

\* The loop body with the empty row put where the full row was.
del_insert_in_place(b, i) ==
  SubSeq(b, 1, i) \o << EmptyRow >> \o SubSeq(b, i + 2, Len(b))

\* One pass of the loop body: del self.board[i]; self.board.insert(0, [None]*COLS)
del_insert(b, i) ==
  << EmptyRow >> \o SubSeq(b, 1, i) \o SubSeq(b, i + 2, Len(b))

\* for i in reversed(full): ... ; j is the number of entries of full still to do.
RECURSIVE remove_rows(_, _, _)
remove_rows(b, full, j) ==
  IF j = 0 THEN b ELSE remove_rows(del_insert(b, full[j]), full, j - 1)

\* scores = {1: 100, 2: 300, 3: 500, 4: 800}; scores.get(n, 0)
scores_get(n) ==
  CASE n = 1 -> 100
    [] n = 2 -> 300
    [] n = 3 -> 500
    [] n = 4 -> 800
    [] OTHER -> 0

max(a, b) == IF a >= b THEN a ELSE b

\* clear_lines with the delay recomputed without its floor.
clear_lines_delay_without_floor(g) ==
  LET full == full_rows(g.board)
      n == Len(full)
  IN  IF n = 0 THEN g
      ELSE LET g1 == [g EXCEPT !.board = remove_rows(g.board, full, n),
                               !.score = g.score + scores_get(n) * g.level,
                               !.lines = g.lines + n]
           IN  IF g1.lines \div LINES_PER_LEVEL + 1 > g1.level
               THEN [g1 EXCEPT !.level = g1.level + 1,
                               !.delay = START_DELAY - LEVEL_STEP * ((g1.level + 1) - 1)]
               ELSE g1

\* clear_lines with the level raised by every clear.
clear_lines_level_up_each_clear(g) ==
  LET full == full_rows(g.board)
      n == Len(full)
  IN  IF n = 0 THEN g
      ELSE [g EXCEPT !.board = remove_rows(g.board, full, n),
                     !.score = g.score + scores_get(n) * g.level,
                     !.lines = g.lines + n,
                     !.level = g.level + 1,
                     !.delay = max(MIN_DELAY, START_DELAY - LEVEL_STEP * ((g.level + 1) - 1))]

\* clear_lines with the level raised before the points are added.
clear_lines_scores_at_new_level(g) ==
  LET full == full_rows(g.board)
      n == Len(full)
  IN  IF n = 0 THEN g
      ELSE LET g1 == [g EXCEPT !.board = remove_rows(g.board, full, n),
                               !.lines = g.lines + n]
               g2 == IF g1.lines \div LINES_PER_LEVEL + 1 > g1.level
                     THEN [g1 EXCEPT !.level = g1.level + 1,
                                     !.delay = max(MIN_DELAY, START_DELAY - LEVEL_STEP * ((g1.level + 1) - 1))]
                     ELSE g1
           IN  [g2 EXCEPT !.score = g.score + scores_get(n) * g2.level]

\* Tetris.clear_lines
clear_lines(g) ==
  LET full == full_rows(g.board)
      n == Len(full)
  IN  IF n = 0 THEN g
      ELSE LET g1 == [g EXCEPT !.board = remove_rows(g.board, full, n),
                               !.score = g.score + scores_get(n) * g.level,
                               !.lines = g.lines + n]
           IN  IF g1.lines \div LINES_PER_LEVEL + 1 > g1.level
               THEN [g1 EXCEPT !.level = g1.level + 1,
                               !.delay = max(MIN_DELAY,
                                   START_DELAY - LEVEL_STEP * ((g1.level + 1) - 1))]
               ELSE g1

\* The loop of Tetris.lock writing every block that lies on the board and
\* reporting afterwards whether a block lay above it.
lock_write_blocks_on_board(b, p, i) ==
  [board |-> [r \in 1..ROWS |-> [c \in 1..COLS |->
                IF \E k \in i..4 : cells(p)[k] = << c - 1, r - 1 >>
                THEN COLORS[p.kind] ELSE b[r][c]]],
   overflow |-> \E k \in i..4 : cells(p)[k][2] < 0]

\* The loop of Tetris.lock over the blocks of cur, from block i on: the board
\* it leaves and whether it met a block with y < 0 (and returned there).
RECURSIVE lock_write(_, _, _)
lock_write(b, p, i) ==
  IF i > 4 THEN [board |-> b, overflow |-> FALSE]
  ELSE LET x == cells(p)[i][1]
           y == cells(p)[i][2]
       IN  IF y < 0 THEN [board |-> b, overflow |-> TRUE]
           ELSE lock_write([b EXCEPT ![y + 1][x + 1] = COLORS[p.kind]], p, i + 1)

\* lock without the test of the promoted piece.
lock_without_spawn_test(g, nk) ==
  LET w == lock_write(g.board, g.cur, 1)
  IN  IF w.overflow
      THEN persist_game([g EXCEPT !.board = w.board, !.game_over = TRUE])
      ELSE LET g1 == clear_lines([g EXCEPT !.board = w.board])
           IN  [g1 EXCEPT !.cur = g1.next, !.next = Piece(nk)]

\* Tetris.lock; nk is the kind new_piece draws.
lock(g, nk) ==
  LET w == lock_write(g.board, g.cur, 1)
  IN  IF w.overflow
      THEN persist_game([g EXCEPT !.board = w.board, !.game_over = TRUE])
      ELSE LET g1 == clear_lines([g EXCEPT !.board = w.board])
               g2 == [g1 EXCEPT !.cur = g1.next, !.next = Piece(nk)]
           IN  IF ~valid(g2.board, g2.cur)
               THEN persist_game([g2 EXCEPT !.game_over = TRUE])
               ELSE g2

\* move with a guard on game_over only: a paused game still moves.
move_ignores_pause(g, dx, dy, nk) ==
  IF g.game_over THEN g
  ELSE LET p == moved(g.cur, dx, dy)
       IN  IF valid(g.board, p) THEN [g EXCEPT !.cur = p]
           ELSE IF dy = 1 THEN lock(g, nk)
           ELSE g

\* Tetris.move
move(g, dx, dy, nk) ==
  IF g.paused \/ g.game_over THEN g
  ELSE LET p == moved(g.cur, dx, dy)
       IN  IF valid(g.board, p) THEN [g EXCEPT !.cur = p]
           ELSE IF dy = 1 THEN lock(g, nk)
           ELSE g

\* soft_drop with the point given only when the piece moved down.
soft_drop_point_on_move_only(g, nk) ==
  IF g.paused \/ g.game_over THEN g
  ELSE LET g1 == move(g, 0, 1, nk)
       IN  IF g1.board = g.board THEN [g1 EXCEPT !.score = @ + 1] ELSE g1

\* Tetris.soft_drop
soft_drop(g, nk) ==
  IF g.paused \/ g.game_over THEN g
  ELSE [move(g, 0, 1, nk) EXCEPT !.score = @ + 1]

\* The while loop of hard_drop and of ghost_piece: the piece after the
\* valid unit steps down, and their number.
RECURSIVE drop(_, _, _)
drop(b, p, dist) ==
  LET q == moved(p, 0, 1)
  IN  IF valid(b, q) THEN drop(b, q, dist + 1)
      ELSE [piece |-> p, dist |-> dist]

\* hard_drop with one point per row instead of two.
hard_drop_one_point_per_row(g, nk) ==
  IF g.paused \/ g.game_over THEN g
  ELSE LET d == drop(g.board, g.cur, 0)
       IN  [lock([g EXCEPT !.cur = d.piece], nk) EXCEPT !.score = @ + d.dist]

\* hard_drop without its guard on paused and game_over.
hard_drop_unguarded(g, nk) ==
  LET d == drop(g.board, g.cur, 0)
  IN  [lock([g EXCEPT !.cur = d.piece], nk) EXCEPT !.score = @ + d.dist * 2]

\* Tetris.hard_drop
hard_drop(g, nk) ==
  IF g.paused \/ g.game_over THEN g
  ELSE LET d == drop(g.board, g.cur, 0)
       IN  [lock([g EXCEPT !.cur = d.piece], nk) EXCEPT !.score = @ + d.dist * 2]

\* for k in [0, -1, 1, -2, 2]
KICKS == << 0, -1, 1, -2, 2 >>

\* rotate without wall kicks: the rotated piece in place, or nothing.
no_kicks(g, p, i) ==
  IF valid(g.board, p) THEN [g EXCEPT !.cur = p] ELSE g

\* The loop of Tetris.rotate from the i-th kick on, p the rotated piece.
RECURSIVE try_kicks(_, _, _)
try_kicks(g, p, i) ==
  IF i > Len(KICKS) THEN g
  ELSE LET c == moved(p, KICKS[i], 0)
       IN  IF valid(g.board, c) THEN [g EXCEPT !.cur = c]
           ELSE try_kicks(g, p, i + 1)

\* Tetris.rotate
rotate(g) ==
  IF g.paused \/ g.game_over THEN g
  ELSE try_kicks(g, rotated(g.cur), 1)

\* toggle_pause without its guard on game_over.
toggle_pause_unguarded(g) == [g EXCEPT !.paused = ~g.paused]

\* Tetris.toggle_pause
toggle_pause(g) ==
  IF g.game_over THEN g ELSE [g EXCEPT !.paused = ~g.paused]

\* reset that leaves the paused flag as it is.
reset_keeps_paused(g, k1, k2) ==
  [g EXCEPT !.board = EmptyBoard, !.cur = Piece(k1), !.next = Piece(k2),
            !.score = 0, !.lines = 0, !.level = 1, !.delay = START_DELAY,
            !.game_over = FALSE]

\* Tetris.reset; k1 and k2 are the kinds the two new_piece calls draw.
reset(g, k1, k2) ==
  [g EXCEPT !.board = EmptyBoard, !.cur = Piece(k1), !.next = Piece(k2),
            !.score = 0, !.lines = 0, !.level = 1, !.delay = START_DELAY,
            !.paused = FALSE, !.game_over = FALSE]

\* Tetris.restart
restart(g, k1, k2) == reset(g, k1, k2)

\* Tetris.tick, its effect on the game (the timer is in the Tick action).
tick(g, nk) ==
  IF ~g.paused /\ ~g.game_over THEN move(g, 0, 1, nk) ELSE g

\* ghost_piece stopping after one step down.
ghost_piece_one_step(g) ==
  IF valid(g.board, moved(g.cur, 0, 1)) THEN moved(g.cur, 0, 1) ELSE g.cur

\* Tetris.ghost_piece
ghost_piece(g) == drop(g.board, g.cur, 0).piece

(***************************************************************************)
(* The state                                                               *)
(*   app: "login" after self.reset() and bind_keys() in __init__, before   *)
(*        login_and_start; "running" once the event loop serves keys and   *)
(*        timers; "destroyed" when the login was cancelled (root.destroy,  *)
(*        after which the first draw raises and the program ends);         *)
(*   timers: the delays of the tick callbacks root.after holds;            *)
(*   nlocks: the locks since the last reset, counted against MaxLocks      *)
(*        (bounds the model only).                                         *)
(***************************************************************************)
VARIABLES board, cur, next, score, lines, level, delay, paused, game_over,
          player_name, emitted, app, timers, nlocks

vars == << ROWS, board, cur, next, score, lines, level, delay, paused,
           game_over, player_name, emitted, app, timers, nlocks >>

\* The game record of the current state.
St ==
  [board |-> board, cur |-> cur, next |-> next, score |-> score,
   lines |-> lines, level |-> level, delay |-> delay, paused |-> paused,
   game_over |-> game_over, player_name |-> player_name, emitted |-> emitted]

\* The game record a command starts from: nothing handed to the store yet.
Begin == [St EXCEPT !.emitted = << >>]

\* The next state's fields are those of g.
Becomes(g) ==
  /\ board' = g.board
  /\ cur' = g.cur
  /\ next' = g.next
  /\ score' = g.score
  /\ lines' = g.lines
  /\ level' = g.level
  /\ delay' = g.delay
  /\ paused' = g.paused
  /\ game_over' = g.game_over
  /\ player_name' = g.player_name
  /\ emitted' = g.emitted
  /\ ROWS' = ROWS

Running == ~paused /\ ~game_over

\* A downward step from this state locks the piece.
Lands == Running /\ ~valid(board, moved(cur, 0, 1))

\* The model serves keys and ticks until MaxLocks pieces have locked since
\* the last reset; after that only the restart key.
InBounds == app = "running" /\ nlocks < MaxLocks

\* Counting a lock.
Counted(locks) == nlocks' = IF locks THEN nlocks + 1 ELSE nlocks

\* __init__ up to bind_keys: player_name = None, reset().
Init ==
  \E k1 \in Kinds, k2 \in Kinds :
    /\ ROWS = SmallRows
    /\ board = EmptyBoard
    /\ cur = Piece(k1)
    /\ next = Piece(k2)
    /\ score = 0
    /\ lines = 0
    /\ level = 1
    /\ delay = START_DELAY
    /\ paused = FALSE
    /\ game_over = FALSE
    /\ player_name = None
    /\ emitted = << >>
    /\ app = "login"
    /\ timers = << >>
    /\ nlocks = 0

\* __init__, lines 255-256: login_and_start() with a name, then the first tick(),
\* which moves the piece and schedules the next tick.
LoginAndStart ==
  /\ app = "login"
  /\ \E name \in Names, nk \in Kinds :
       LET g == tick([Begin EXCEPT !.player_name = name], nk)
       IN  /\ Becomes(g)
           /\ timers' = Append(timers, g.delay)
  /\ Counted(Lands)
  /\ app' = "running"

\* login_and_start() with the login cancelled: root.destroy(); the first tick()
\* then moves the piece and raises in draw(), and the program ends.
LoginCancelled ==
  /\ app = "login"
  /\ \E nk \in Kinds : Becomes(tick(Begin, nk))
  /\ Counted(Lands)
  /\ app' = "destroyed"
  /\ UNCHANGED timers

\* change_player: login_flow returns a name, or None (nothing changes).
ChangePlayer ==
  /\ InBounds
  /\ \E name \in Names \cup {None} :
       Becomes(IF name # None THEN [Begin EXCEPT !.player_name = name] ELSE Begin)
  /\ UNCHANGED << app, timers, nlocks >>

\* <Left>
MoveLeft ==
  /\ InBounds
  /\ \E nk \in Kinds : Becomes(move(Begin, -1, 0, nk))
  /\ UNCHANGED << app, timers, nlocks >>

\* <Right>
MoveRight ==
  /\ InBounds
  /\ \E nk \in Kinds : Becomes(move(Begin, 1, 0, nk))
  /\ UNCHANGED << app, timers, nlocks >>

\* <Down>
SoftDrop ==
  /\ InBounds
  /\ score < MaxScore
  /\ \E nk \in Kinds : Becomes(soft_drop(Begin, nk))
  /\ Counted(Lands)
  /\ UNCHANGED << app, timers >>

\* <space>
HardDrop ==
  /\ InBounds
  /\ score < MaxScore
  /\ \E nk \in Kinds : Becomes(hard_drop(Begin, nk))
  /\ Counted(Running)
  /\ UNCHANGED << app, timers >>

\* <Up>
Rotate ==
  /\ InBounds
  /\ Becomes(rotate(Begin))
  /\ UNCHANGED << app, timers, nlocks >>

\* p, P
TogglePause ==
  /\ InBounds
  /\ Becomes(toggle_pause(Begin))
  /\ UNCHANGED << app, timers, nlocks >>

\* A restart that also starts a tick of its own.
Restart_starting_a_tick ==
  /\ app = "running"
  /\ \E k1 \in Kinds, k2 \in Kinds :
       LET g == restart(Begin, k1, k2)
       IN  /\ Becomes(g)
           /\ timers' = Append(timers, g.delay)
  /\ nlocks' = 0
  /\ UNCHANGED app

\* r, R
Restart ==
  /\ app = "running"
  /\ \E k1 \in Kinds, k2 \in Kinds : Becomes(restart(Begin, k1, k2))
  /\ nlocks' = 0
  /\ UNCHANGED << app, timers >>

\* A scheduled tick fires: the move, then root.after(self.delay, self.tick).
Tick ==
  /\ InBounds
  /\ timers # << >>
  /\ \E nk \in Kinds :
       LET g == tick(Begin, nk)
       IN  /\ Becomes(g)
           /\ timers' = Append(Tail(timers), g.delay)
  /\ Counted(Lands)
  /\ UNCHANGED app

Next ==
  \/ LoginAndStart
  \/ LoginCancelled
  \/ ChangePlayer
  \/ MoveLeft
  \/ MoveRight
  \/ SoftDrop
  \/ HardDrop
  \/ Rotate
  \/ TogglePause
  \/ Restart
  \/ Tick

Spec == Init /\ [][Next]_vars

\* The same program with sessions of at most ShortLocks locks: the boards on
\* which the properties of the pure functions are checked, piece by piece.
NextShort == nlocks < ShortLocks /\ Next

SpecShort == Init /\ [][NextShort]_vars

(***************************************************************************)
(* The program late in a session.  A board of ROWS rows holds no stack of  *)
(* four rows under a free spawn area and ten lines take more locks than    *)
(* MaxLocks, so the locks that clear three or four rows and the locks      *)
(* that raise the level are drawn: the board is a stack of rows that lack  *)
(* one or two cells, the current piece is any valid piece of the bounded   *)
(* kinds in the top row, and lines, level and delay are those of a session *)
(* that has cleared lines rows, one level per LINES_PER_LEVEL rows, and    *)
(* that has LateLocks locks left of its MaxLocks.  From there the same     *)
(* handlers run.                                                           *)
(***************************************************************************)
GapRow == [c \in 1..COLS |-> IF c = 1 THEN None ELSE COLORS["I"]]

HoleRow == [c \in 1..COLS |-> IF c = 1 \/ c = COLS THEN None ELSE COLORS["O"]]

LateBoards ==
  { b \in [1..ROWS -> {EmptyRow, GapRow, HoleRow}] :
      \A r \in 1..(ROWS - 1) : b[r] # EmptyRow => b[r + 1] # EmptyRow }

LatePieces(b) ==
  { p \in [kind : Kinds, rot : 0..1, x : (-2)..(COLS - 1), y : {SPAWN_Y}] :
      p.rot < Len(SHAPES[p.kind]) /\ valid(b, p) }

Levels == {1, 2} \cup ((MaxLevel - 2)..MaxLevel)

LineDigits == {5, 6, 9}

InitLate ==
  /\ ROWS = SmallRows
  /\ \E b \in LateBoards, lv \in Levels, r \in LineDigits, k2 \in Kinds :
    \E p \in LatePieces(b) :
      /\ board = b
      /\ cur = p
      /\ next = Piece(k2)
      /\ score = 0
      /\ lines = LINES_PER_LEVEL * (lv - 1) + r
      /\ level = lv
      /\ delay = max(MIN_DELAY, START_DELAY - LEVEL_STEP * (lv - 1))
      /\ paused = FALSE
      /\ game_over = FALSE
      /\ player_name \in Names
      /\ emitted = << >>
      /\ app = "running"
      /\ timers = << delay >>
      /\ nlocks = MaxLocks - LateLocks

NextLate ==
  \/ MoveLeft
  \/ MoveRight
  \/ SoftDrop
  \/ HardDrop
  \/ Rotate
  \/ TogglePause
  \/ Tick

SpecLate == InitLate /\ [][NextLate]_vars

(***************************************************************************)
(* lock called with a piece above the board.  No state of play holds such  *)
(* a piece (pieces spawn at row 0 and never move up), so the branch of     *)
(* lock for a block at a row < 0 is run on drawn states: a piece of any    *)
(* kind and rotation at the spawn column, 1 to MaxAbove rows above its     *)
(* spawn row, over a board of SpecLate.  A step down then either brings    *)
(* the piece onto the board or calls lock.                                 *)
(***************************************************************************)
PiecesAbove ==
  { p \in [kind : AllKinds, rot : 0..3, x : {SPAWN_X}, y : (-MaxAbove)..(-1)] :
      p.rot < Len(SHAPES[p.kind]) }

InitAbove ==
  /\ ROWS = SmallRows
  /\ \E b \in LateBoards, p \in PiecesAbove, k2 \in Kinds :
    /\ board = b
    /\ cur = p
    /\ next = Piece(k2)
    /\ score = 0
    /\ lines = 0
    /\ level = 1
    /\ delay = START_DELAY
    /\ paused = FALSE
    /\ game_over = FALSE
    /\ player_name \in Names
    /\ emitted = << >>
    /\ app = "running"
    /\ timers = << delay >>
    /\ nlocks = MaxLocks - LateLocks

NextAbove ==
  \/ SoftDrop
  \/ HardDrop
  \/ Tick

SpecAbove == InitAbove /\ [][NextAbove]_vars

(***************************************************************************)
(* One way of playing, from the start of the program, on a board of        *)
(* TallRows rows.  The player leaves column 0 free: every O is moved to    *)
(* columns 1-2 and every I is left in its spawn columns 3-6, until         *)
(* 2 * PlanPairs rows are filled but for column 0; then every I is turned  *)
(* upright and moved into column 0.  The pieces fall by gravity.  The      *)
(* draws of new_piece are free; a play ends where the piece drawn has no   *)
(* place in the plan.                                                      *)
(***************************************************************************)
\* The rows that hold a cell in column x (0-based).
RowsWith(x) == { r \in 1..ROWS : board[r][x + 1] # None }

ColumnFree == RowsWith(0) = {}

\* Every row that holds a cell holds all of columns 1..COLS-1.
Stacked ==
  \A r \in 1..ROWS :
    board[r] = EmptyRow \/ \A c \in 2..COLS : board[r][c] # None

PlanO ==
  /\ cur.kind = "O"
  /\ ColumnFree
  /\ Cardinality(RowsWith(1)) < 2 * PlanPairs

PlanFlatI ==
  /\ cur.kind = "I" /\ cur.rot = 0 /\ cur.x = SPAWN_X
  /\ ColumnFree
  /\ Cardinality(RowsWith(3)) < 2 * PlanPairs

PlanUprightI ==
  /\ cur.kind = "I"
  /\ Stacked
  /\ \/ Cardinality(RowsWith(1)) = 2 * PlanPairs /\ Cardinality(RowsWith(3)) = 2 * PlanPairs
     \/ ~ColumnFree

InitTall ==
  \E k1 \in Kinds, k2 \in Kinds :
    /\ ROWS = TallRows
    /\ board = EmptyBoard
    /\ cur = Piece(k1)
    /\ next = Piece(k2)
    /\ score = 0
    /\ lines = 0
    /\ level = 1
    /\ delay = START_DELAY
    /\ paused = FALSE
    /\ game_over = FALSE
    /\ player_name = None
    /\ emitted = << >>
    /\ app = "login"
    /\ timers = << >>
    /\ nlocks = MaxLocks - TallLocks

NextTall ==
  \/ LoginAndStart
  \/ /\ \/ PlanO /\ cur.x > 0
        \/ PlanUprightI /\ cur.rot = 1 /\ cur.x > -2
     /\ MoveLeft
  \/ /\ PlanUprightI /\ cur.rot = 0
     /\ Rotate
  \/ /\ \/ PlanO /\ cur.x = 0
        \/ PlanFlatI
        \/ PlanUprightI /\ cur.rot = 1 /\ cur.x = -2
     /\ Tick

SpecTall == InitTall /\ [][NextTall]_vars

\* The program from its start and from late in a session, with every event.
InitAny == Init \/ InitLate

SpecAny == InitAny /\ [][Next]_vars

(***************************************************************************)
(* Notions the properties are stated with.  They are written from the      *)
(* statements, not from the handlers: sets of cells, rows and counts.      *)
(***************************************************************************)
\* The set of cells <<x, y>> a piece covers.
CellSet(p) == { cells(p)[i] : i \in 1..4 }

InBoard(c) == c[1] >= 0 /\ c[1] < COLS /\ c[2] >= 0 /\ c[2] < ROWS

\* The board b with piece p written into it (p within the board).
Written(b, p) ==
  [r \in 1..ROWS |-> [c \in 1..COLS |->
     IF << c - 1, r - 1 >> \in CellSet(p) THEN COLORS[p.kind] ELSE b[r][c]]]

IsFullRow(row) == \A c \in 1..COLS : row[c] # None

\* The rows of b (1-based) that are full.
FullSet(b) == { r \in 1..ROWS : IsFullRow(b[r]) }

\* The rows of b that are not full, in their order.
Kept(b) == SelectSeq(b, LAMBDA row : ~IsFullRow(row))

\* The board after its full rows are removed and as many empty rows are
\* put on top.
Cleared(b) ==
  [i \in 1..Cardinality(FullSet(b)) |-> [c \in 1..COLS |-> None]] \o Kept(b)

\* The scoring table of the specification.
BasePoints(n) == IF n = 1 THEN 100 ELSE IF n = 2 THEN 300
                 ELSE IF n = 3 THEN 500 ELSE IF n = 4 THEN 800 ELSE 0

\* The piece at rest below the current piece: the lowest position every
\* unit step to which is valid.
RestDist ==
  CHOOSE d \in 0..ROWS :
    /\ \A j \in 1..d : valid(board, moved(cur, 0, j))
    /\ ~valid(board, moved(cur, 0, d + 1))

Rest == [cur EXCEPT !.y = cur.y + RestDist]

\* The fields of the game state the specification lists.
Fields(g) ==
  [board |-> g.board, cur |-> g.cur, next |-> g.next, score |-> g.score,
   lines |-> g.lines, level |-> g.level, delay |-> g.delay,
   paused |-> g.paused, game_over |-> g.game_over]

Playing == app = "running"

(***************************************************************************)
(* C1.  A lock that leaves k >= 1 full rows: clear_lines removes exactly   *)
(* those rows, puts k empty rows on top and keeps every other row, with    *)
(* its contents, in order.  Stated for the lock of the current piece at    *)
(* its resting place, from every state in play.                            *)
(***************************************************************************)
C1_ClearRemovesExactlyFullRows ==
  (Playing /\ Running) =>
    LET b == Written(board, Rest)
    IN  FullSet(b) # {} =>
          clear_lines([St EXCEPT !.board = b]).board = Cleared(b)

\* The same for a lock that leaves exactly one full row.
C1_SingleRow ==
  (Playing /\ Running) =>
    LET b == Written(board, Rest)
    IN  Cardinality(FullSet(b)) = 1 =>
          clear_lines([St EXCEPT !.board = b]).board = Cleared(b)

C1_SingleRowWitness ==
  /\ Playing /\ Running
  /\ Cardinality(FullSet(Written(board, Rest))) = 1

C1_TwoRowsWitness ==
  /\ Playing /\ Running
  /\ Cardinality(FullSet(Written(board, Rest))) = 2

(***************************************************************************)
(* C2.  valid(piece), for the pieces of every kind and rotation around the *)
(* current piece (up to two rows above it, so that blocks lie at rows      *)
(* < 0, and one column to either side), on every board of SpecShort.       *)
(***************************************************************************)
Shapes == { kr \in AllKinds \X (0..3) : kr[2] < Len(SHAPES[kr[1]]) }

Probes ==
  { [kind |-> kr[1], rot |-> kr[2], x |-> cur.x + d[1], y |-> cur.y + d[2]] :
      kr \in Shapes, d \in (-1..1) \X (-2..1) }

\* Cell c lies on the board and holds something.
OnOccupied(b, c) == InBoard(c) /\ b[c[2] + 1][c[1] + 1] # None

C3_RecordCarriesFinalStats ==
  \A i \in 1..Len(emitted) :
    /\ emitted[i].score = score
    /\ emitted[i].lines = lines
    /\ emitted[i].level = level

(***************************************************************************)
(* C4.  The store is called exactly once in a step in which game_over      *)
(* turns from false to true with a player set, and not at all in any other *)
(* step, nor when no player is set.                                        *)
(***************************************************************************)
C4_PersistOncePerGameOver ==
  [][ LET over == ~game_over /\ game_over'
      IN  /\ (over /\ player_name' # None) => Len(emitted') = 1
          /\ ~over => emitted' = << >>
          /\ player_name' = None => emitted' = << >> ]_vars

\* The state a game-over step leaves: one record, of the player.
C4_Witness ==
  /\ game_over
  /\ player_name # None
  /\ Len(emitted) = 1
  /\ emitted[1].name = player_name

(***************************************************************************)
(* C5.  Once game_over is true, move, rotate, soft_drop, hard_drop, the    *)
(* tick and toggle_pause change nothing, and game_over stays true until a  *)
(* restart (the step that ends it leaves the state of a reset).            *)
(***************************************************************************)
AfterReset ==
  /\ board = EmptyBoard
  /\ score = 0 /\ lines = 0 /\ level = 1 /\ delay = 500
  /\ ~paused /\ ~game_over

C5_GameOverIsTerminal ==
  [][ game_over =>
        /\ \A nk \in Kinds :
             /\ \A dx \in -1..1, dy \in -1..1 : move(St, dx, dy, nk) = St
             /\ soft_drop(St, nk) = St
             /\ hard_drop(St, nk) = St
             /\ tick(St, nk) = St
        /\ rotate(St) = St
        /\ toggle_pause(St) = St
        /\ (game_over' \/ AfterReset') ]_vars

\* Game over with the piece on the board: a command met it and did nothing.
C5_Witness ==
  /\ game_over
  /\ emitted = << >>
  /\ board # EmptyBoard

(***************************************************************************)
(* C6.  While paused, move, rotate, soft_drop, hard_drop and the tick      *)
(* leave the game state as it is; toggle_pause returns to Running with     *)
(* every other field unchanged; a step that changes the game state is that *)
(* of toggle_pause or that of a restart.                                   *)
(***************************************************************************)
C6_PausedFreezesGame ==
  [][ paused =>
        /\ \A nk \in Kinds :
             /\ \A dx \in -1..1, dy \in -1..1 :
                  Fields(move(St, dx, dy, nk)) = Fields(St)
             /\ Fields(soft_drop(St, nk)) = Fields(St)
             /\ Fields(hard_drop(St, nk)) = Fields(St)
             /\ Fields(tick(St, nk)) = Fields(St)
        /\ Fields(rotate(St)) = Fields(St)
        /\ toggle_pause(St) = [St EXCEPT !.paused = FALSE]
        /\ ~toggle_pause(St).game_over
        /\ Fields(St)' # Fields(St) =>
             \/ Fields(St)' = [Fields(St) EXCEPT !.paused = FALSE]
             \/ AfterReset' ]_vars

\* Paused with the piece at rest on the stack: a tick that was served would
\* lock it.
C6_Witness ==
  /\ Playing /\ paused
  /\ board # EmptyBoard
  /\ ~valid(board, moved(cur, 0, 1))

(***************************************************************************)
(* C7.  restart, from every reachable state and for every kind drawn for   *)
(* the current piece: empty board, score 0, lines 0, level 1, delay 500,   *)
(* not paused, not over, both pieces at rotation 0 and (3, 0), the current *)
(* one on empty cells of the board.                                        *)
(***************************************************************************)
C7_RestartResets ==
  \A k1 \in AllKinds, k2 \in Kinds :
    LET r == restart(St, k1, k2)
    IN  /\ r.board = [y \in 1..ROWS |-> [x \in 1..COLS |-> None]]
        /\ r.score = 0 /\ r.lines = 0 /\ r.level = 1 /\ r.delay = 500
        /\ ~r.paused /\ ~r.game_over
        /\ r.cur = [kind |-> k1, rot |-> 0, x |-> 3, y |-> 0]
        /\ r.next = [kind |-> k2, rot |-> 0, x |-> 3, y |-> 0]
        /\ valid(r.board, r.cur)
        /\ \A c \in CellSet(r.cur) : InBoard(c) /\ ~OnOccupied(r.board, c)

\* The state a restart leaves after play: the piece back in row 0 on an empty
\* board (start-up moves the first piece to row 1 before any key is served,
\* and no command moves a piece up).
C7_Witness ==
  /\ Playing /\ AfterReset
  /\ cur.y = 0 /\ cur.x = 3 /\ cur.rot = 0
  /\ nlocks = 0

(***************************************************************************)
(* C8.  rotate in a Running state: the rotated piece shifted by the first  *)
(* of 0, -1, 1, -2, 2 that makes it valid, the row kept; the piece         *)
(* unchanged when none does; never an invalid piece; nothing else changes. *)
(***************************************************************************)
RotationCount(kind) ==
  IF kind = "O" THEN 1 ELSE IF kind \in {"I", "S", "Z"} THEN 2 ELSE 4

C8_RotateFirstValidKick ==
  (Playing /\ Running) =>
    LET r == rotate(St)
        cand == [cur EXCEPT !.rot = (cur.rot + 1) % RotationCount(cur.kind)]
        order == << 0, -1, 1, -2, 2 >>
        at(i) == [cand EXCEPT !.x = cand.x + order[i]]
        fits(i) == \A c \in CellSet(at(i)) : InBoard(c) /\ ~OnOccupied(board, c)
    IN  /\ \/ \E i \in 1..5 :
                /\ fits(i)
                /\ \A j \in 1..(i - 1) : ~fits(j)
                /\ r.cur = at(i)
           \/ /\ \A i \in 1..5 : ~fits(i)
              /\ r.cur = cur
        /\ valid(r.board, r.cur)
        /\ [r EXCEPT !.cur = cur] = St

\* A rotation in place is blocked and a kick places the piece.
C8_Witness ==
  /\ InBounds /\ Running
  /\ ~valid(board, rotated(cur))
  /\ rotate(St).cur # cur
  /\ rotate(St).cur.x # cur.x

(***************************************************************************)
(* C9.  hard_drop in a Running state locks the piece RestDist rows below   *)
(* (same column and rotation) and adds 2 * RestDist plus the line score of *)
(* that lock to the score.                                                 *)
(***************************************************************************)
C9_HardDropDistanceAndScore ==
  (Playing /\ Running) =>
    \A nk \in Kinds :
      LET h == hard_drop(St, nk)
          b == Written(board, Rest)
          n == Cardinality(FullSet(b))
      IN  /\ Rest.x = cur.x /\ Rest.rot = cur.rot /\ Rest.kind = cur.kind
          /\ h.score = score + 2 * RestDist + BasePoints(n) * level
          /\ h.lines = lines + n
          /\ n = 0 => h.board = b
          /\ n = 1 => h.board = Cleared(b)
          /\ h.cur = next

\* A hard drop that falls at least one row and completes a row.
C9_Witness ==
  /\ InBounds /\ Running /\ score < MaxScore
  /\ RestDist >= 1
  /\ FullSet(Written(board, Rest)) # {}

(***************************************************************************)
(* C10.  soft_drop in a Running state gives the state of move(0, 1) with   *)
(* the score one higher, when the step moves the piece and when it locks   *)
(* it; the tick gives the state of move(0, 1).                             *)
(***************************************************************************)
C10_SoftDropIsMoveDownPlusOne ==
  (Playing /\ Running) =>
    \A nk \in Kinds :
      LET m == move(St, 0, 1, nk)
          s == soft_drop(St, nk)
          t == tick(St, nk)
          down == [cur EXCEPT !.y = cur.y + 1]
          n == Cardinality(FullSet(Written(board, cur)))
      IN  /\ s = [m EXCEPT !.score = m.score + 1]
          /\ t = m
          /\ IF \A c \in CellSet(down) : InBoard(c) /\ ~OnOccupied(board, c)
             THEN /\ m = [St EXCEPT !.cur = down]
                  /\ s.score = score + 1
             ELSE /\ n = 0 => m.board = Written(board, cur)
                  /\ m.cur = next
                  /\ m.score = score + BasePoints(n) * level
                  /\ s.score = score + BasePoints(n) * level + 1

\* A soft drop that locks the piece and completes a row.
C10_Witness ==
  /\ InBounds /\ Running /\ score < MaxScore
  /\ ~valid(board, moved(cur, 0, 1))
  /\ FullSet(Written(board, cur)) # {}

(***************************************************************************)
(* C11.  The lock of a piece at rest that leaves n full rows (n in 0..4)   *)
(* adds exactly BasePoints(n) * level to the score, with the level of the  *)
(* state before the lock: 800 * level for four rows, nothing for none.     *)
(***************************************************************************)
FullAtLock == Cardinality(FullSet(Written(board, cur)))

C11_LockScoresBaseTimesLevel ==
  (Playing /\ Lands /\ FullAtLock <= 4) =>
    \A nk \in Kinds :
      lock(St, nk).score = score + BasePoints(FullAtLock) * level

\* Four rows completed at a level above 1 by the lock that raises the level.
C11_Witness ==
  /\ Playing /\ Lands
  /\ FullAtLock = 4
  /\ level > 1
  /\ (lines + 4) \div LINES_PER_LEVEL + 1 > level

(***************************************************************************)
(* C12.  In every step of a session the level rises by exactly 1 if the    *)
(* step takes lines to or past the next multiple of LINES_PER_LEVEL, and   *)
(* stays as it is otherwise (so it never decreases); in every state        *)
(* level = lines \div LINES_PER_LEVEL + 1.                                 *)
(***************************************************************************)
LevelFollowsLines == level = lines \div LINES_PER_LEVEL + 1

LevelStep ==
  level' = IF lines' \div LINES_PER_LEVEL > lines \div LINES_PER_LEVEL
           THEN level + 1
           ELSE level

DelayOfLevel(lv) ==
  IF START_DELAY - LEVEL_STEP * (lv - 1) < MIN_DELAY
  THEN MIN_DELAY
  ELSE START_DELAY - LEVEL_STEP * (lv - 1)

DelayFollowsLevel ==
  /\ delay = DelayOfLevel(level)
  /\ delay >= MIN_DELAY
  /\ \A k1 \in Kinds, k2 \in Kinds : reset(St, k1, k2).delay = START_DELAY

C17_DelayFollowsLevel == [] DelayFollowsLevel /\ [][delay' <= delay]_vars

\* After the lock that raised the level to where the floor of 80 applies.
C17_Witness ==
  /\ Playing /\ nlocks = MaxLocks
  /\ lines % LINES_PER_LEVEL < 4
  /\ START_DELAY - LEVEL_STEP * (level - 1) < MIN_DELAY
  /\ START_DELAY - LEVEL_STEP * (level - 2) >= MIN_DELAY
  /\ delay = MIN_DELAY

(***************************************************************************)
(* C14.  A lock that leaves exactly one full row r: the top row becomes    *)
(* empty, the rows above r move down by one as they are, the rows below r  *)
(* stay as they are, lines grows by 1 and the score by 100 * level.        *)
(***************************************************************************)
C14_SingleRowClear ==
  (Playing /\ Lands) =>
    LET b == Written(board, cur)
    IN  \A r \in 1..ROWS, nk \in Kinds :
          FullSet(b) = {r} =>
            LET g == lock(St, nk)
            IN  /\ \A i \in 1..ROWS :
                     g.board[i] = IF i = 1 THEN [c \in 1..COLS |-> None]
                                  ELSE IF i <= r THEN b[i - 1]
                                  ELSE b[i]
                /\ g.lines = lines + 1
                /\ g.score = score + 100 * level

\* One full row with a row of cells above it and a row below it, at a
\* level above 1.
C14_Witness ==
  /\ Playing /\ Lands
  /\ level > 1
  /\ \E r \in 2..(ROWS - 1) :
       /\ FullSet(Written(board, cur)) = {r}
       /\ Written(board, cur)[r - 1] # [c \in 1..COLS |-> None]

(***************************************************************************)
(* C18.  In every state between two commands no row of the board has all  *)
(* of its COLS cells occupied.                                             *)
(***************************************************************************)
C18_NoFullRowBetweenCommands == FullSet(board) = {}

C16_GameOverWitness ==
  /\ Playing /\ game_over
  /\ ghost_piece(St) = Rest

(***************************************************************************)
(* C19.  While game_over is false the four cells of the current piece lie  *)
(* inside the board, on empty cells.  game_over becomes true only in a     *)
(* step that locks a piece and promotes the next piece, at its spawn       *)
(* placement (x = 3, y = 0, rotation 0), onto cells where it is not valid. *)
(***************************************************************************)
CurOnFreeCells ==
  ~game_over =>
    /\ Cardinality(CellSet(cur)) = 4
    /\ \A c \in CellSet(cur) : InBoard(c) /\ board[c[2] + 1][c[1] + 1] = None

GameOverStep ==
  (~game_over /\ game_over') =>
    /\ nlocks' = nlocks + 1
    /\ cur' = [kind |-> next.kind, rot |-> 0, x |-> 3, y |-> 0]
    /\ \E c \in CellSet(cur') : ~InBoard(c) \/ board'[c[2] + 1][c[1] + 1] # None

C19_CurOnFreeCellsUntilGameOver == [] CurOnFreeCells /\ [][GameOverStep]_vars

\* A game that ended with the promoted piece on occupied cells.
C19_Witness ==
  /\ Playing /\ game_over
  /\ cur = [kind |-> cur.kind, rot |-> 0, x |-> 3, y |-> 0]
  /\ \E c \in CellSet(cur) : InBoard(c) /\ board[c[2] + 1][c[1] + 1] # None

(***************************************************************************)
(* C20.  Once the game has started exactly one tick is pending in every    *)
(* state.  A tick, in a running, paused or finished game, leaves one       *)
(* pending tick, scheduled with the delay of the state after its move.     *)
(* The keys (moves, drops, rotate, pause, restart, change of player)       *)
(* leave the pending tick as it is.                                        *)
(***************************************************************************)
OnePendingTick == Playing => Len(timers) = 1

KeyStep ==
  \/ MoveLeft \/ MoveRight \/ SoftDrop \/ HardDrop \/ Rotate
  \/ TogglePause \/ Restart \/ ChangePlayer

TimerStep ==
  /\ Tick => timers' = << delay' >>
  /\ timers' # timers => ~KeyStep

C20_OnePendingTick == [] OnePendingTick /\ [][TimerStep]_vars

\* A game restarted late in a session: the one pending tick is the one
\* scheduled before the restart, with the delay of that time.
C20_Witness ==
  /\ Playing /\ nlocks = 0
  /\ score = 0 /\ board = EmptyBoard
  /\ Len(timers) = 1
  /\ timers[1] < delay

\* A tick that locked a piece and raised the level has scheduled the next
\* tick with the new delay.
C20_LevelUpWitness ==
  /\ Playing /\ nlocks = MaxLocks
  /\ lines % LINES_PER_LEVEL < 4
  /\ level >= 2
  /\ delay > MIN_DELAY
  /\ timers = << delay >>

\* A tick of a finished game and of a paused game is pending, too.
C20_IdleWitness ==
  /\ Playing /\ (paused \/ game_over)
  /\ Len(timers) = 1

(***************************************************************************)
(* C15.  lock called while a block of the current piece lies at a row < 0  *)
(* sets game_over and leaves the board, score, lines, level, the current   *)
(* piece and the next piece as they are.                                   *)
(***************************************************************************)
BlockAbove == \E c \in CellSet(cur) : c[2] < 0

C15_LockAboveBoardOnlyEndsGame ==
  (Playing /\ BlockAbove) =>
    \A nk \in Kinds :
      LET g == lock(St, nk)
      IN  /\ g.game_over
          /\ \A r \in 1..ROWS, c \in 1..COLS : g.board[r][c] = board[r][c]
          /\ g.score = score /\ g.lines = lines /\ g.level = level
          /\ g.cur = cur /\ g.next = next

\* The game ended by a lock of a piece with blocks above and on the board.
C15_Witness ==
  /\ Playing /\ game_over
  /\ BlockAbove
  /\ \E c \in CellSet(cur) : c[2] >= 0
  /\ nlocks = MaxLocks

(***************************************************************************)
(* C13.  Every step in which clear_lines counts rows as cleared (lines     *)
(* grows) counts at most 4 of them and adds points to the score.           *)
(***************************************************************************)
C13_CountInScoringTable ==
  [][lines' > lines => (lines' - lines <= 4 /\ score' > score)]_vars

====
